---------------------------- MODULE Spec2Model ----------------------------
(***************************************************************************)
(* A model of the matryoshka wallpaper generator:                          *)
(*   - build_prompt, generate_image and main of matryoshka_app_v6.py,      *)
(*   - main of matryoshka_app.py (the first version of the app),           *)
(*   - _draw_background, _wrap_text and make_image of imagegen.py.         *)
(*                                                                         *)
(* A Python str is a sequence of pieces.  A piece that comes from user     *)
(* input is one character; a long literal of a template is kept as one     *)
(* piece (it is never split, trimmed or compared character by character).  *)
(***************************************************************************)
EXTENDS Integers, Sequences, FiniteSets, TLC

VARIABLES
    \* build_prompt (v6): its arguments, three of its locals and its result
    args, subjects, cleaned_objects, objects_text, prompt, ppc,
    \* main and generate_image: which app runs, the form's widget values, the
    \* imagegen module of the environment, main's position, what main has
    \* displayed, generate_image's position, its result (image_path, error), the
    \* exception it lets through, and the calls of imagegen.make_image so far
    app, form, backend, mpc, shown, gpc, image_path, error, raised, ncalls,
    \* _wrap_text: its argument, the blocks the loop has still to take, the
    \* list lines, the length of lines before each block taken so far, and
    \* its position
    text, blocks, lines, marks, wpc,
    \* _draw_background: its arguments width and height, the pixels of the
    \* canvas, the loop variables x and y, its position, the number of dots
    \* drawn and the arguments of the last ellipse
    width, height, canvas, x, y, bpc, ndots, dot,
    \* make_image: the wall clock, the directories and the files of the file
    \* system; for each caller the position in make_image, the arguments and
    \* the locals timestamp, output_path and canvas, and the position in the
    \* file being written; the calls made; the returned calls; the order in
    \* which the calls opened and closed their files
    clock, dirs, files, ipc, call, timestamp, output_path, image, fp, ncall, returned, saves

promptVars == <<args, subjects, cleaned_objects, objects_text, prompt, ppc>>
appVars == <<app, form, backend, mpc, shown, gpc, image_path, error, raised, ncalls>>
wrapVars == <<text, blocks, lines, marks, wpc>>
bgVars == <<width, height, canvas, x, y, bpc, ndots, dot>>
imgVars == <<clock, dirs, files, ipc, call, timestamp, output_path, image, fp, ncall,
             returned, saves>>
vars == <<promptVars, appVars, wrapVars, bgVars, imgVars>>

----------------------------------------------------------------------------
(* Python str and list operations used by the sources *)

\* str.isspace() of one character
IsSpace(c) == c \in {" ", "\t", "\n", "\r"}

\* str.lstrip()
RECURSIVE LStrip(_)
LStrip(s) == IF s # <<>> /\ IsSpace(Head(s)) THEN LStrip(Tail(s)) ELSE s

\* str.rstrip()
RECURSIVE RStrip(_)
RStrip(s) ==
    IF s # <<>> /\ IsSpace(s[Len(s)]) THEN RStrip(SubSeq(s, 1, Len(s) - 1)) ELSE s

\* str.strip()
Strip(s) == RStrip(LStrip(s))

\* the k-th smallest element of the set of numbers P
KthOf(P, k) == CHOOSE p \in P : Cardinality({q \in P : q < p}) = k - 1

\* str.split(sep) for a one-character sep: every sep ends a field, empty
\* fields are kept, the result of "" is [""]
Split(s, sep) ==
    LET at == {i \in 1..Len(s) : s[i] = sep}
        n == Cardinality(at)
        pos == [k \in 0..(n + 1) |->
                  IF k = 0 THEN 0 ELSE IF k = n + 1 THEN Len(s) + 1 ELSE KthOf(at, k)]
    IN  [k \in 1..(n + 1) |-> SubSeq(s, pos[k - 1] + 1, pos[k] - 1)]

\* sep.join(list)
RECURSIVE Join(_, _)
Join(list, sep) ==
    IF list = <<>> THEN <<>>
    ELSE IF Len(list) = 1 THEN list[1]
    ELSE list[1] \o sep \o Join(Tail(list), sep)

\* str.lower() of one character, on the letters the inputs use
LowerChar(c) ==
    CASE c = "N" -> "n"
      [] c = "O" -> "o"
      [] c = "E" -> "e"
      [] c = "C" -> "c"
      [] OTHER -> c

\* str.lower()
Lower(s) == [i \in 1..Len(s) |-> LowerChar(s[i])]

\* all strings over alphabet A of length at most n
StringsUpTo(A, n) == UNION {[1..k -> A] : k \in 0..n}

----------------------------------------------------------------------------
(* matryoshka_app_v6.py: build_prompt *)

STYLE_RECIPE == <<"\nStrict style recipe:\n- cosy vintage ... calm and uncluttered\n">>

\* the literal set {"none", ""} of line 50
NoneWords == {<<"n", "o", "n", "e">>, <<>>}

\* line 50 without the call of lower()
HasSecondary_NoLower(secondary_subject) ==
    secondary_subject # <<>> /\ secondary_subject \notin NoneWords

\* line 50: secondary_subject and secondary_subject.lower() not in {"none", ""}
HasSecondary(secondary_subject) ==
    secondary_subject # <<>> /\ Lower(secondary_subject) \notin NoneWords

\* lines 50-53
Subjects(primary_subject, secondary_subject) ==
    IF HasSecondary(secondary_subject)
    THEN primary_subject \o <<" ", "a", "n", "d", " ">> \o secondary_subject
             \o <<" ", "f", "i", "g", "u", "r", "e", "s">>
    ELSE primary_subject \o <<" ", "f", "i", "g", "u", "r", "e", "s">>

\* lines 55-59
FaceText(head_body_ratio, eye_style, mouth_color) ==
    <<"They have round plump faces with a head-to-body ratio of ">> \o head_body_ratio
        \o <<", ", "no noses, ", "tiny ">> \o eye_style \o <<" eyes and small ">>
        \o mouth_color \o <<" mouths with soft blush cheeks.">>

\* lines 60-64
FlatText(apply_flat_faces) ==
    IF apply_flat_faces
    THEN <<" Faces are perfectly flat circles and bodies have smoothly curved bases for a natural transition.">>
    ELSE <<>>

\* line 67 with the filter "if obj" in place of "if obj.strip()"
RECURSIVE StripNonBlank_IfObj(_)
StripNonBlank_IfObj(fields) ==
    IF fields = <<>> THEN <<>>
    ELSE (IF Head(fields) # <<>> THEN <<Strip(Head(fields))>> ELSE <<>>)
             \o StripNonBlank_IfObj(Tail(fields))

\* line 67, the comprehension over a list of fields:
\* [obj.strip() for obj in fields if obj.strip()]
RECURSIVE StripNonBlank(_)
StripNonBlank(fields) ==
    IF fields = <<>> THEN <<>>
    ELSE (IF Strip(Head(fields)) # <<>> THEN <<Strip(Head(fields))>> ELSE <<>>)
             \o StripNonBlank(Tail(fields))

\* line 67: [obj.strip() for obj in held_objects.split(",") if obj.strip()]
CleanedObjects(held_objects) == StripNonBlank(Split(held_objects, ","))

\* lines 69-72 with every item joined by ", "
ObjectsList_CommaOnly(cleaned) == Join(cleaned, <<",", " ">>)

\* lines 69-72
ObjectsList(cleaned) ==
    IF Len(cleaned) = 1
    THEN cleaned[1]
    ELSE Join(SubSeq(cleaned, 1, Len(cleaned) - 1), <<",", " ">>)
             \o <<" ", "a", "n", "d", " ">> \o cleaned[Len(cleaned)]

\* lines 66-73
ObjectsText(cleaned) ==
    IF cleaned # <<>>
    THEN <<" Each figure holds one of the following props: ">> \o ObjectsList(cleaned) \o <<".">>
    ELSE <<>>

\* lines 75-81
PromptText(a, subj, face_text, flat_text, objs) ==
    <<"A vertical repeating wallpaper illustration that matches the reference matryoshka images.", "\n\n">>
        \o STYLE_RECIPE \o <<"\n\n">>
        \o <<"Scene: repeating, rounded ">> \o subj \o <<" ">> \o a.scene_description \o <<". ">>
        \o face_text \o flat_text \o objs \o <<"\n\n">>
        \o <<"Background: soft ">> \o a.background_color \o <<" with scattered, simple ">>
        \o a.background_elements \o <<"; pattern density: ">> \o a.pattern_density \o <<".", "\n\n">>
        \o <<"Palette: ">> \o a.palette \o <<"; texture intensity: ">> \o a.texture_strength
        \o <<"; finish is grainy, soft, and matte.">>

\* lines 34-82: the whole function, on the argument record a
build_prompt(a) ==
    PromptText(a,
               Subjects(a.primary_subject, a.secondary_subject),
               FaceText(a.head_body_ratio, a.eye_style, a.mouth_color),
               FlatText(a.apply_flat_faces),
               ObjectsText(CleanedObjects(a.held_objects)))

----------------------------------------------------------------------------
(* Calls of build_prompt on bounded arguments *)

\* longest held_objects string tried
MaxHeldLen == 5

HeldAlphabet == {"a", "b", ",", " "}

SubjectAlphabet == {"n", "o", "e", "N", "O", "E"}

Word_cats == <<"c", "a", "t", "s">>
Word_dolls == <<"d", "o", "l", "l", "s">>

\* every string of the letters n, o, e in either case, of the length of "none",
\* and some strings that are not "none" in any case
SecondarySubjects ==
    [1..4 -> SubjectAlphabet]
        \cup {<<>>, Word_cats, <<"n", "o", "n">>, <<"n", "o", "n", "e", "e">>,
              <<"N", "O">>, <<"n", "o", " ", "n", "e">>, <<"C", "a", "t", "s">>}

PrimarySubjects == {Word_dolls, <<"n", "o", "n", "e">>}

\* the arguments the form's defaults give for the fields build_prompt only
\* interpolates (main, lines 114-138)
DefaultArgs ==
    [scene_description |-> <<"sharing tea and reading in a quiet forest">>,
     background_color |-> <<"powder blue">>,
     background_elements |-> <<"evergreen trees, mushrooms, leaves, berries, tiny stars, books">>,
     palette |-> <<"pastel blues, warm creams, moss greens, muted browns, blush pink">>,
     head_body_ratio |-> <<"1:1.3">>,
     mouth_color |-> <<"soft red">>,
     eye_style |-> <<"dot">>,
     pattern_density |-> <<"balanced">>,
     texture_strength |-> <<"medium">>]

ArgsOf(primary, secondary, flat, held) ==
    [f \in DOMAIN DefaultArgs \cup
           {"primary_subject", "secondary_subject", "apply_flat_faces", "held_objects"} |->
        CASE f = "primary_subject" -> primary
          [] f = "secondary_subject" -> secondary
          [] f = "apply_flat_faces" -> flat
          [] f = "held_objects" -> held
          [] OTHER -> DefaultArgs[f]]

\* every held_objects string of length at most n with two secondary subjects, and every secondary
\* subject with two held_objects strings
PromptArgs(n) ==
    {ArgsOf(p, s, f, h) :
        p \in PrimarySubjects, s \in {<<>>, Word_cats}, f \in BOOLEAN,
        h \in StringsUpTo(HeldAlphabet, n)}
    \cup
    {ArgsOf(p, s, f, h) :
        p \in PrimarySubjects, s \in SecondarySubjects, f \in BOOLEAN,
        h \in {<<>>, <<"a", ",", "b">>}}

PromptIdle ==
    /\ args = [none |-> TRUE]
    /\ subjects = <<>>
    /\ cleaned_objects = <<>>
    /\ objects_text = <<>>
    /\ prompt = <<>>
    /\ ppc = "idle"

AppIdle ==
    /\ app = "none"
    /\ form = [none |-> TRUE]
    /\ backend = "none"
    /\ mpc = "idle"
    /\ shown = <<>>
    /\ gpc = "idle"
    /\ image_path = "None"
    /\ error = "None"
    /\ raised = "None"
    /\ ncalls = 0

WrapIdle ==
    /\ text = <<>>
    /\ blocks = <<>>
    /\ lines = <<>>
    /\ marks = <<>>
    /\ wpc = "idle"

BgIdle ==
    /\ width = 0
    /\ height = 0
    /\ canvas = <<>>
    /\ x = 0
    /\ y = 0
    /\ bpc = "idle"
    /\ ndots = 0
    /\ dot = [none |-> TRUE]

\* the callers of make_image: two sessions of the app
Callers == {1, 2}

ImgIdle ==
    /\ clock = 0
    /\ dirs = {}
    /\ files = <<>>
    /\ ipc = [c \in Callers |-> "idle"]
    /\ call = [c \in Callers |-> [none |-> TRUE]]
    /\ timestamp = [c \in Callers |-> 0]
    /\ output_path = [c \in Callers |-> <<>>]
    /\ image = [c \in Callers |-> <<>>]
    /\ fp = [c \in Callers |-> 0]
    /\ ncall = 0
    /\ returned = {}
    /\ saves = <<>>

InitPrompt ==
    /\ AppIdle
    /\ WrapIdle
    /\ BgIdle
    /\ ImgIdle
    /\ args \in PromptArgs(MaxHeldLen)
    /\ subjects = <<>>
    /\ cleaned_objects = <<>>
    /\ objects_text = <<>>
    /\ prompt = <<>>
    /\ ppc = "call"

\* build_prompt(**args), lines 34-82
BuildPrompt ==
    /\ ppc = "call"
    /\ subjects' = Subjects(args.primary_subject, args.secondary_subject)
    /\ cleaned_objects' = CleanedObjects(args.held_objects)
    /\ objects_text' = ObjectsText(CleanedObjects(args.held_objects))
    /\ prompt' = build_prompt(args)
    /\ ppc' = "returned"
    /\ UNCHANGED <<args, appVars, wrapVars, bgVars, imgVars>>

NextPrompt == BuildPrompt

SpecPrompt == InitPrompt /\ [][NextPrompt]_vars

----------------------------------------------------------------------------
(* Claims about build_prompt *)

S_and == <<" ", "a", "n", "d", " ">>
S_comma == <<",", " ">>
S_figures == <<" ", "f", "i", "g", "u", "r", "e", "s">>
PropsLead == " Each figure holds one of the following props: "
FaceTail == " mouths with soft blush cheeks."
FlatPiece == " Faces are perfectly flat circles and bodies have smoothly curved bases for a natural transition."

\* the index of the first piece of s equal to x, 0 when there is none
IndexOf(s, piece) ==
    IF \E i \in 1..Len(s) : s[i] = piece
    THEN CHOOSE i \in 1..Len(s) : s[i] = piece /\ \A j \in 1..(i - 1) : s[j] # piece
    ELSE 0

\* s from its piece number i to its end
From(s, i) == SubSeq(s, i, Len(s))

\* p is a prefix of s
IsPrefix(p, s) == Len(p) <= Len(s) /\ SubSeq(s, 1, Len(p)) = p

\* "a", "a and b", "a, b, ..., and z"
RECURSIVE OxfordTail(_)
OxfordTail(c) ==
    IF Len(c) = 1 THEN <<"a", "n", "d", " ">> \o c[1]
    ELSE c[1] \o S_comma \o OxfordTail(Tail(c))

OxfordJoin(c) ==
    IF Len(c) = 1 THEN c[1]
    ELSE IF Len(c) = 2 THEN c[1] \o S_and \o c[2]
    ELSE c[1] \o S_comma \o OxfordTail(Tail(c))

\* "a", "a and b", "a, b, ... y and z"
RECURSIVE PlainJoin(_)
PlainJoin(c) ==
    IF Len(c) = 1 THEN c[1]
    ELSE IF Len(c) = 2 THEN c[1] \o S_and \o c[2]
    ELSE c[1] \o S_comma \o PlainJoin(Tail(c))

\* the props sentence of the prompt: from the piece PropsLead to the paragraph break
PropsSentence ==
    LET i == IndexOf(prompt, PropsLead)
        rest == From(prompt, i)
    IN  IF i = 0 THEN <<>> ELSE SubSeq(rest, 1, IndexOf(rest, "\n\n") - 1)

OnlyCommasAndSpace(held) == \A i \in 1..Len(held) : IsSpace(held[i]) \/ held[i] = ","

\* what follows the face clause in the prompt
AfterFace == From(prompt, IndexOf(prompt, FaceTail) + 1)

\* C2: the props sentence is in the prompt if and only if held_objects has an
\* item left after cleaning; when it has none (empty, whitespace, commas) the
\* scene paragraph ends right after the face clause, or after the flat-face
\* clause when apply_flat_faces is true, and no piece of the sentence appears.
C2_PropsIffNonEmpty ==
    ppc = "returned" =>
        /\ IndexOf(prompt, FaceTail) > 0
        /\ IF OnlyCommasAndSpace(args.held_objects)
           THEN /\ IndexOf(prompt, PropsLead) = 0
                /\ IsPrefix((IF args.apply_flat_faces THEN <<FlatPiece>> ELSE <<>>)
                                \o <<"\n\n", "Background: soft ">>, AfterFace)
           ELSE /\ IsPrefix((IF args.apply_flat_faces THEN <<FlatPiece>> ELSE <<>>)
                                \o <<PropsLead>>, AfterFace)
                /\ PropsSentence[Len(PropsSentence)] = "."

C2_Witness ==
    /\ ppc = "returned"
    /\ args.held_objects = <<" ", ",", ",", " ">>
    /\ args.apply_flat_faces
    /\ IndexOf(prompt, PropsLead) = 0

\* "none" in any mix of upper and lower case
CaseVariantsOfNone ==
    {s \in [1..4 -> SubjectAlphabet] :
        /\ s[1] \in {"n", "N"} /\ s[2] \in {"o", "O"}
        /\ s[3] \in {"n", "N"} /\ s[4] \in {"e", "E"}}

\* the subjects clause of the prompt: between "Scene: repeating, rounded " and
\* the scene description
SubjectsClause ==
    LET rest == From(prompt, IndexOf(prompt, "Scene: repeating, rounded ") + 1)
    IN  SubSeq(rest, 1, IndexOf(rest, args.scene_description[1]) - 2)

\* C3: with secondary_subject empty or "none" in any case the subjects clause is
\* "{primary} figures"; with any other secondary_subject it is
\* "{primary} and {secondary} figures".
C3_SubjectsClause ==
    ppc = "returned" =>
        /\ SubjectsClause = subjects
        /\ IF args.secondary_subject = <<>> \/ args.secondary_subject \in CaseVariantsOfNone
           THEN subjects = args.primary_subject \o S_figures
           ELSE subjects = args.primary_subject \o S_and \o args.secondary_subject \o S_figures

C3_Witness ==
    /\ ppc = "returned"
    /\ args.secondary_subject = <<"N", "o", "N", "E">>
    /\ subjects = Word_dolls \o S_figures

----------------------------------------------------------------------------
(* matryoshka_app.py: build_prompt and generate_image of the first version *)

\* matryoshka_app.py, lines 48-63
build_prompt_v1(a) ==
    <<"A vertical wallpaper illustration in a cozy, textured, minimalist folk-art style, resembling risograph or colored pencil on grainy paper, matching the aesthetic of image_0.png, image_1.png, and image_2.png.", "\n\n">>
        \o <<"The main subjects are repeating, rounded ">> \o a.subject
        \o <<" figures, designed specifically in the shape of matryoshka dolls (nesting dolls). They have simple, happy faces with rosy cheeks and ">>
        \o a.face_details \o <<".", "\n\n">>
        \o <<"They are ">> \o a.actions \o <<".", "\n\n">>
        \o <<"The background is a soft ">> \o a.background_color
        \o <<" filled with scattered, simple ">> \o a.background_elements \o <<".", "\n\n">>
        \o <<"The overall color palette is ">> \o a.palette
        \o <<", and the texture is grainy, soft, and matte.">>

\* matryoshka_app.py, line 88: return None
generate_image_v1(p) == "None"

\* matryoshka_app.py, lines 143-147
NotConfiguredInfo == "Image generation is not configured in this environment.  The prompt above can be used with your own image generation service or the imagegen tool available in this notebook."

----------------------------------------------------------------------------
(* main and generate_image *)

\* what the environment holds under the name imagegen: no module; a module
\* whose import raises (imagegen.py imports PIL at its line 16, which raises
\* ModuleNotFoundError where Pillow is not installed); a module without
\* make_image; a module with make_image
Backends == {"absent", "import_raises", "no_make_image", "ok"}

\* what a call of make_image(prompt=prompt) does: returns a path, returns None,
\* returns the empty string, or raises an Exception with a message
MakeImageOutcomes ==
    {[kind |-> "returns", value |-> "generated/matryoshka_prompt_20260101_000000.png"],
     [kind |-> "returns", value |-> "None"],
     [kind |-> "returns", value |-> ""],
     [kind |-> "raises", value |-> "draw.textsize"],
     [kind |-> "raises", value |-> ""]}

\* Python truthiness of a str or None
Truthy(v) == v # "None" /\ v # ""

\* matryoshka_app_v6.py, lines 90, 94, 99: the error messages (their backquotes left out)
MsgNotConfigured == "Image generation not configured: install or provide an imagegen module with make_image()."
MsgMissingEntry == "imagegen module found but missing make_image function."
MsgFailed(e) == "Image generation failed: " \o e

pad(s) == <<" ">> \o s \o <<" ", " ">>

\* values typed into the form of the v6 app (lines 112-139)
FormsV6 ==
    {[f \in DOMAIN DefaultArgs \cup
            {"primary_subject", "secondary_subject", "apply_flat_faces", "held_objects"} |->
         CASE f = "primary_subject" -> p
           [] f = "secondary_subject" -> s
           [] f = "apply_flat_faces" -> fl
           [] f = "held_objects" -> h
           [] OTHER -> pad(DefaultArgs[f])] :
        p \in {Word_dolls, pad(Word_dolls)},
        s \in {<<>>, pad(<<"N", "o", "n", "e">>), Word_cats},
        fl \in BOOLEAN,
        h \in {<<" ">>, pad(<<"a", ",", "b", " ", ",", "a">>)}}

\* values typed into the form of the first app (matryoshka_app.py, lines 101-122)
FormsV1 ==
    {[subject |-> sb, face_details |-> <<"closed smiling eyes">>,
      actions |-> ac, background_color |-> <<"muted green">>,
      background_elements |-> pad(<<"leaves and flowers">>), palette |-> <<"earthy tones">>] :
        sb \in {<<"c", "a", "t">>, pad(<<"c", "a", "t">>)},
        ac \in {<<"wearing cozy sweaters">>, <<>>}}

InitApp ==
    /\ PromptIdle
    /\ WrapIdle
    /\ BgIdle
    /\ ImgIdle
    /\ app \in {"v1", "v6"}
    /\ form \in (IF app = "v6" THEN FormsV6 ELSE FormsV1)
    /\ backend \in Backends
    /\ mpc = "form"
    /\ shown = <<>>
    /\ gpc = "idle"
    /\ image_path = "None"
    /\ error = "None"
    /\ raised = "None"
    /\ ncalls = 0

\* the arguments main passes: every text field stripped
\* (matryoshka_app_v6.py lines 143-157, matryoshka_app.py lines 126-133)
StrippedForm(fm) ==
    [f \in DOMAIN fm |-> IF f = "apply_flat_faces" THEN fm[f] ELSE Strip(fm[f])]

\* matryoshka_app_v6.py, lines 142-159: submit, build the prompt, display it
SubmitV6 ==
    /\ app = "v6" /\ mpc = "form"
    /\ args' = StrippedForm(form)
    /\ subjects' = Subjects(args'.primary_subject, args'.secondary_subject)
    /\ cleaned_objects' = CleanedObjects(args'.held_objects)
    /\ objects_text' = ObjectsText(cleaned_objects')
    /\ prompt' = build_prompt(args')
    /\ ppc' = "returned"
    /\ shown' = <<[call |-> "subheader", value |-> "Generated Prompt"],
                  [call |-> "code", value |-> prompt']>>
    /\ mpc' = "generate"
    /\ gpc' = "find_spec"
    /\ UNCHANGED <<app, form, backend, image_path, error, raised, ncalls, wrapVars, bgVars, imgVars>>

\* lines 88-90: find_spec("imagegen") is None
GenNotFound ==
    /\ app = "v6" /\ gpc = "find_spec" /\ backend = "absent"
    /\ image_path' = "None"
    /\ error' = MsgNotConfigured
    /\ gpc' = "returned"
    /\ UNCHANGED <<wrapVars, bgVars, imgVars, promptVars, app, form, backend, mpc, shown, raised, ncalls>>

\* lines 88-89: find_spec("imagegen") finds the module
GenFound ==
    /\ app = "v6" /\ gpc = "find_spec" /\ backend # "absent"
    /\ gpc' = "import"
    /\ UNCHANGED <<wrapVars, bgVars, imgVars, promptVars, app, form, backend, mpc, shown, image_path, error, raised, ncalls>>

\* line 92: importlib.import_module("imagegen") runs the module; an exception
\* of the module's top level leaves generate_image, no handler being around it
GenImport ==
    /\ app = "v6" /\ gpc = "import"
    /\ IF backend = "import_raises"
       THEN gpc' = "raised" /\ raised' = "ModuleNotFoundError: No module named 'PIL'"
       ELSE gpc' = "hasattr" /\ UNCHANGED raised
    /\ UNCHANGED <<wrapVars, bgVars, imgVars, promptVars, app, form, backend, mpc, shown, image_path, error, ncalls>>

\* lines 93-94: not hasattr(imagegen, "make_image")
GenMissingEntry ==
    /\ app = "v6" /\ gpc = "hasattr" /\ backend = "no_make_image"
    /\ image_path' = "None"
    /\ error' = MsgMissingEntry
    /\ gpc' = "returned"
    /\ UNCHANGED <<wrapVars, bgVars, imgVars, promptVars, app, form, backend, mpc, shown, raised, ncalls>>

\* lines 96-101: the call of make_image under try/except Exception
GenCall ==
    /\ app = "v6" /\ gpc = "hasattr" /\ backend = "ok"
    /\ ncalls' = ncalls + 1
    /\ \E o \in MakeImageOutcomes :
          IF o.kind = "raises"
          THEN image_path' = "None" /\ error' = MsgFailed(o.value)
          ELSE image_path' = o.value /\ error' = "None"
    /\ gpc' = "returned"
    /\ UNCHANGED <<wrapVars, bgVars, imgVars, promptVars, app, form, backend, mpc, shown, raised>>

\* line 161, generate_image having raised: the exception leaves main as well
MainRaised ==
    /\ app = "v6" /\ mpc = "generate" /\ gpc = "raised"
    /\ mpc' = "crashed"
    /\ UNCHANGED <<wrapVars, bgVars, imgVars, promptVars, app, form, backend, shown, gpc, image_path, error, raised, ncalls>>

\* lines 161-166: display the image, or else the error if there is one
ShowResultV6 ==
    /\ app = "v6" /\ mpc = "generate" /\ gpc = "returned"
    /\ shown' = IF Truthy(image_path)
                THEN shown \o <<[call |-> "subheader", value |-> "Generated Image"],
                                [call |-> "image", value |-> image_path]>>
                ELSE IF Truthy(error)
                THEN Append(shown, [call |-> "info", value |-> error])
                ELSE shown
    /\ mpc' = "done"
    /\ UNCHANGED <<wrapVars, bgVars, imgVars, promptVars, app, form, backend, gpc, image_path, error, raised, ncalls>>

\* matryoshka_app.py, lines 125-138: submit, build the prompt, display it,
\* call generate_image
SubmitV1 ==
    /\ app = "v1" /\ mpc = "form"
    /\ args' = StrippedForm(form)
    /\ prompt' = build_prompt_v1(args')
    /\ ppc' = "returned"
    /\ shown' = <<[call |-> "subheader", value |-> "Generated Prompt"],
                  [call |-> "write", value |-> prompt']>>
    /\ image_path' = generate_image_v1(prompt')
    /\ gpc' = "returned"
    /\ mpc' = "generate"
    /\ UNCHANGED <<subjects, cleaned_objects, objects_text, app, form, backend, error, raised, ncalls, wrapVars, bgVars, imgVars>>

\* matryoshka_app.py, lines 139-147: display the image, or else the explanation
ShowResultV1 ==
    /\ app = "v1" /\ mpc = "generate" /\ gpc = "returned"
    /\ shown' = IF Truthy(image_path)
                THEN shown \o <<[call |-> "subheader", value |-> "Generated Image"],
                                [call |-> "image", value |-> image_path]>>
                ELSE Append(shown, [call |-> "info", value |-> NotConfiguredInfo])
    /\ mpc' = "done"
    /\ UNCHANGED <<wrapVars, bgVars, imgVars, promptVars, app, form, backend, gpc, image_path, error, raised, ncalls>>

NextApp ==
    \/ SubmitV6 \/ GenNotFound \/ GenFound \/ GenImport \/ GenMissingEntry \/ GenCall
    \/ MainRaised \/ ShowResultV6 \/ SubmitV1 \/ ShowResultV1

SpecApp == InitApp /\ [][NextApp]_vars

----------------------------------------------------------------------------
(* Claims about generate_image and main *)

\* C4 (as stated): generate_image never lets an exception through and always
\* returns a pair: (None, a non-empty message) without calling the backend when
\* the module is absent or lacks make_image, (None, "Image generation failed: "
\* and the message) when make_image raises, (path, None) when it returns; and
\* make_image is called at most once.
C4_NeverPropagates ==
    /\ gpc # "raised"
    /\ ncalls <= 1
    /\ (app = "v6" /\ gpc = "returned") =>
          \/ image_path = "None" /\ ncalls = 0 /\ error \in {MsgNotConfigured, MsgMissingEntry}
          \/ image_path = "None" /\ ncalls = 1
                /\ error \in {"Image generation failed: " \o o.value :
                                  o \in {r \in MakeImageOutcomes : r.kind = "raises"}}
          \/ ncalls = 1 /\ error = "None"

Displayed(c) == \E i \in 1..Len(shown) : shown[i].call = c

\* C5 (as stated): on every submission the prompt is displayed and then exactly
\* one of the image and an informational explanation.
C5_ImageOrExplanation ==
    mpc = "done" =>
        /\ Len(shown) >= 2
        /\ shown[1].call = "subheader"
        /\ shown[2].call \in {"code", "write"} /\ shown[2].value = prompt
        /\ Displayed("image") # Displayed("info")

----------------------------------------------------------------------------
(* textwrap.wrap(text, width) as imagegen.py, line 41, calls it: the defaults
   expand_tabs, replace_whitespace, drop_whitespace, break_long_words and
   break_on_hyphens are all on.  Texts are over letters ("x"), the hyphen,
   the space and the newline. *)

\* the character of t at i, "" outside t
At(t, i) == IF i \in 1..Len(t) THEN t[i] ELSE ""

\* a letter (the regular expression's [^\d\W])
IsLetter(c) == c = "x"

IsHyphen(c) == c = "-"

\* TextWrapper._munge_whitespace: every whitespace character becomes a space
Munge(t) == [i \in 1..Len(t) |-> IF IsSpace(t[i]) THEN " " ELSE t[i]]

\* the number of hyphens of t from position i on
RECURSIVE HyphenRun(_, _)
HyphenRun(t, i) == IF IsHyphen(At(t, i)) THEN 1 + HyphenRun(t, i + 1) ELSE 0

\* the last position of the run of spaces of t that starts at i
RECURSIVE SpaceRunEnd(_, _)
SpaceRunEnd(t, i) == IF At(t, i + 1) = " " THEN SpaceRunEnd(t, i + 1) ELSE i

\* wordsep_re, "em-dash between words": two or more hyphens at i, after a
\* letter and before a letter
EmDashAt(t, i) ==
    /\ IsLetter(At(t, i - 1))
    /\ HyphenRun(t, i) >= 2
    /\ IsLetter(At(t, i + HyphenRun(t, i)))

\* wordsep_re, "hyphenated word": a hyphen at j after two letters or after
\* letter-hyphen-letter, and before two letters or letter-hyphen-letter
HyphenBreakAt(t, j) ==
    /\ IsHyphen(At(t, j))
    /\ \/ IsLetter(At(t, j - 2)) /\ IsLetter(At(t, j - 1))
       \/ IsLetter(At(t, j - 3)) /\ IsHyphen(At(t, j - 2)) /\ IsLetter(At(t, j - 1))
    /\ IsLetter(At(t, j + 1))
    /\ \/ IsLetter(At(t, j + 2))
       \/ IsHyphen(At(t, j + 2)) /\ IsLetter(At(t, j + 3))

\* wordsep_re, "word, possibly hyphenated": the match that starts at i may
\* stop before position j (j > i): at a hyphen that breaks the word (the
\* hyphen is then part of the match), at the end of the word, or before an
\* em-dash
WordStopAt(t, j) ==
    \/ HyphenBreakAt(t, j)
    \/ j > Len(t) \/ At(t, j) = " "
    \/ IsLetter(At(t, j - 1)) /\ EmDashAt(t, j)

\* wordsep_re, "word, possibly hyphenated": the last position of the shortest
\* match that starts at i
WordChunkEnd(t, i) ==
    LET stops == {j \in (i + 1)..(Len(t) + 1) : WordStopAt(t, j)}
        j == CHOOSE m \in stops : \A o \in stops : m <= o
    IN  IF HyphenBreakAt(t, j) THEN j ELSE j - 1

\* the last position of the chunk of t that starts at i
ChunkEnd(t, i) ==
    IF At(t, i) = " " THEN SpaceRunEnd(t, i)
    ELSE IF EmDashAt(t, i) THEN i + HyphenRun(t, i) - 1
    ELSE WordChunkEnd(t, i)

\* TextWrapper._split: the chunks of t from position i on
RECURSIVE SplitChunks(_, _)
SplitChunks(t, i) ==
    IF i > Len(t) THEN <<>>
    ELSE LET e == ChunkEnd(t, i)
         IN  <<SubSeq(t, i, e)>> \o SplitChunks(t, e + 1)

\* the sum of the lengths of the chunks of a line
RECURSIVE TotalLen(_)
TotalLen(cs) == IF cs = <<>> THEN 0 ELSE Len(Head(cs)) + TotalLen(Tail(cs))

\* "".join(chunks)
RECURSIVE Concat(_)
Concat(cs) == IF cs = <<>> THEN <<>> ELSE Head(cs) \o Concat(Tail(cs))

\* _wrap_chunks, the inner loop: chunks go to the line while they fit
RECURSIVE FillLine(_, _, _)
FillLine(chunks, cur_line, line_width) ==
    IF chunks # <<>> /\ TotalLen(cur_line) + Len(Head(chunks)) <= line_width
    THEN FillLine(Tail(chunks), Append(cur_line, Head(chunks)), line_width)
    ELSE [cur_line |-> cur_line, chunks |-> chunks]

\* chunk.rfind("-", 0, space_left), as a position from 1 (0: not found)
RFindHyphen(chunk, n) ==
    LET at == {i \in 1..n : i <= Len(chunk) /\ IsHyphen(chunk[i])}
    IN  IF at = {} THEN 0 ELSE CHOOSE m \in at : \A o \in at : o <= m

\* _handle_long_word: how many characters of the long chunk go to the line
LongWordCut(chunk, space_left) ==
    LET h == RFindHyphen(chunk, space_left)
    IN  IF Len(chunk) > space_left /\ h > 1 /\ \E i \in 1..(h - 1) : ~IsHyphen(chunk[i])
        THEN h
        ELSE space_left

\* "the next chunk is too big to fit on this line"
TooLong_ForThisLine(chunk, cur_len, line_width) == Len(chunk) > line_width - cur_len

\* _wrap_chunks: "the next chunk is too big to fit on any line"
TooLong(chunk, cur_len, line_width) == Len(chunk) > line_width

\* _wrap_chunks after the inner loop: a chunk too long for any line is cut
HandleLongWord(f, line_width) ==
    IF f.chunks # <<>> /\ TooLong(Head(f.chunks), TotalLen(f.cur_line), line_width)
    THEN LET chunk == Head(f.chunks)
             end == LongWordCut(chunk, line_width - TotalLen(f.cur_line))
         IN  [cur_line |-> Append(f.cur_line, SubSeq(chunk, 1, end)),
              chunks |-> <<SubSeq(chunk, end + 1, Len(chunk))>> \o Tail(f.chunks)]
    ELSE f

\* _wrap_chunks: a line's last chunk is dropped when it is all whitespace
DropTrailingSpace(cur_line) ==
    IF cur_line # <<>> /\ Strip(cur_line[Len(cur_line)]) = <<>>
    THEN SubSeq(cur_line, 1, Len(cur_line) - 1)
    ELSE cur_line

\* TextWrapper._wrap_chunks: the outer loop, one line per turn
RECURSIVE WrapChunks(_, _, _)
WrapChunks(chunks, out, line_width) ==
    IF chunks = <<>> THEN out
    ELSE LET start == IF Strip(Head(chunks)) = <<>> /\ out # <<>> THEN Tail(chunks) ELSE chunks
             f == HandleLongWord(FillLine(start, <<>>, line_width), line_width)
             cur_line == DropTrailingSpace(f.cur_line)
         IN  WrapChunks(f.chunks,
                        IF cur_line # <<>> THEN Append(out, Concat(cur_line)) ELSE out,
                        line_width)

\* textwrap.wrap(t, width=line_width)
TextWrap(t, line_width) == WrapChunks(SplitChunks(Munge(t), 1), <<>>, line_width)

----------------------------------------------------------------------------
(* imagegen.py: _wrap_text *)

\* imagegen.py, lines 38 and 71: chars_per_line
chars_per_line == 60

\* line 41 without its: or [""]
WrapBlock_NoBlankLine(block, line_width) == TextWrap(Strip(block), line_width)

\* line 41: wrap(block.strip(), width=chars_per_line) or [""]
WrapBlock(block, line_width) ==
    LET w == TextWrap(Strip(block), line_width)
    IN  IF w = <<>> THEN << <<>> >> ELSE w

\* most tokens a text is made of
MaxTokens == 4

\* a word of n letters
Word(n) == [i \in 1..n |-> "x"]

\* what texts are made of: words of lengths around chars_per_line and its
\* half, a hyphenated word, the hyphen, the space, the newline
Tokens ==
    {Word(n) : n \in {1, 2, chars_per_line \div 2, chars_per_line, chars_per_line + 1}}
        \cup {<<"x", "x", "-">> \o Word(chars_per_line \div 2)}
        \cup {<<"-">>, <<" ">>, <<"\n">>}

RECURSIVE TextsOf(_)
TextsOf(n) ==
    IF n = 0 THEN {<<>>}
    ELSE LET shorter == TextsOf(n - 1)
         IN  shorter \cup {t \o k : t \in shorter, k \in Tokens}

InitWrap ==
    /\ PromptIdle
    /\ AppIdle
    /\ BgIdle
    /\ ImgIdle
    /\ text \in TextsOf(MaxTokens)
    /\ blocks = Split(text, "\n")
    /\ lines = <<>>
    /\ marks = <<>>
    /\ wpc = "loop"

\* lines 40-41: one turn of the loop over text.split("\n")
WrapNextBlock ==
    /\ wpc = "loop" /\ blocks # <<>>
    /\ lines' = lines \o WrapBlock(Head(blocks), chars_per_line)
    /\ marks' = Append(marks, Len(lines))
    /\ blocks' = Tail(blocks)
    /\ UNCHANGED <<text, wpc, promptVars, appVars, bgVars, imgVars>>

\* line 42: return lines
WrapReturn ==
    /\ wpc = "loop" /\ blocks = <<>>
    /\ wpc' = "returned"
    /\ UNCHANGED <<text, blocks, lines, marks, promptVars, appVars, bgVars, imgVars>>

NextWrap == WrapNextBlock \/ WrapReturn

SpecWrap == InitWrap /\ [][NextWrap]_vars

----------------------------------------------------------------------------
(* Claims about _wrap_text *)

\* the positions of the newlines of t
NewlinesOf(t) == {i \in 1..Len(t) : t[i] = "\n"}

\* the position of the k-th newline of t; 0 for k = 0, Len(t) + 1 past the last
NewlinePos(t, k) ==
    IF k = 0 THEN 0
    ELSE IF k > Cardinality(NewlinesOf(t)) THEN Len(t) + 1
    ELSE KthOf(NewlinesOf(t), k)

NumSegments == Cardinality(NewlinesOf(text)) + 1

\* the k-th newline-separated segment of text
Segment(k) == SubSeq(text, NewlinePos(text, k - 1) + 1, NewlinePos(text, k) - 1)

\* the lines the loop added for the k-th segment
SegmentLines(k) ==
    SubSeq(lines, marks[k] + 1, IF k < Len(marks) THEN marks[k + 1] ELSE Len(lines))

\* the words of s: its maximal runs of non-whitespace characters
WordsOf(s) ==
    LET first == {i \in 1..Len(s) : ~IsSpace(s[i]) /\ (i = 1 \/ IsSpace(s[i - 1]))}
        last == {i \in 1..Len(s) : ~IsSpace(s[i]) /\ (i = Len(s) \/ IsSpace(s[i + 1]))}
    IN  [k \in 1..Cardinality(first) |-> SubSeq(s, KthOf(first, k), KthOf(last, k))]

\* the words of a list of lines, line after line
RECURSIVE LineWords(_)
LineWords(ls) == IF ls = <<>> THEN <<>> ELSE WordsOf(Head(ls)) \o LineWords(Tail(ls))

\* C7 as stated: no word is broken: the words of the lines of every segment
\* are the words of the segment, whatever their length.
C7_NeverMidWord ==
    wpc = "returned" =>
        /\ Len(marks) = NumSegments
        /\ \A k \in 1..NumSegments : LineWords(SegmentLines(k)) = WordsOf(Segment(k))

\* a word that is never broken: no longer than a line and without a hyphen
Unbreakable(w) == Len(w) <= chars_per_line /\ \A i \in 1..Len(w) : w[i] # "-"

\* the words ls of the lines are the words ws with every unbreakable word kept
\* whole and every other word kept whole or cut into consecutive pieces
RECURSIVE WholeWords(_, _)
WholeWords(ws, ls) ==
    IF ws = <<>> THEN ls = <<>>
    ELSE IF Unbreakable(Head(ws))
         THEN ls # <<>> /\ Head(ls) = Head(ws) /\ WholeWords(Tail(ws), Tail(ls))
         ELSE \E k \in 1..Len(ls) :
                 /\ Concat(SubSeq(ls, 1, k)) = Head(ws)
                 /\ WholeWords(Tail(ws), SubSeq(ls, k + 1, Len(ls)))

\* the same with a word being unbreakable as soon as it is no longer than a line
RECURSIVE WholeShortWords(_, _)
WholeShortWords(ws, ls) ==
    IF ws = <<>> THEN ls = <<>>
    ELSE IF Len(Head(ws)) <= chars_per_line
         THEN ls # <<>> /\ Head(ls) = Head(ws) /\ WholeShortWords(Tail(ws), Tail(ls))
         ELSE \E k \in 1..Len(ls) :
                 /\ Concat(SubSeq(ls, 1, k)) = Head(ws)
                 /\ WholeShortWords(Tail(ws), SubSeq(ls, k + 1, Len(ls)))

\* C7 amended: every word of at most 60 characters that contains no hyphen
\* appears whole inside a single output line, the words of a segment keeping
\* their order; longer words and words with hyphens may be cut into pieces.
C7_UnbreakableWordsWhole ==
    wpc = "returned" =>
        /\ Len(marks) = NumSegments
        /\ \A k \in 1..NumSegments : WholeWords(WordsOf(Segment(k)), LineWords(SegmentLines(k)))

\* Not C7's amendment, and violated: every word of at most 60 characters, with
\* or without hyphens, appears whole inside a single output line.
C7_ShortWordsWhole ==
    wpc = "returned" =>
        \A k \in 1..NumSegments : WholeShortWords(WordsOf(Segment(k)), LineWords(SegmentLines(k)))

C7_Witness ==
    /\ wpc = "returned"
    /\ text = Word(chars_per_line) \o <<" ">> \o Word(2) \o <<" ">>
    /\ lines = <<Word(chars_per_line), Word(2)>>

\* the characters of s that are not whitespace
NotSpace(c) == ~IsSpace(c)
NonSpace(s) == SelectSeq(s, NotSpace)

----------------------------------------------------------------------------
(* imagegen.py: _draw_background *)

\* line 22
colors == <<"#f7f0e8", "#f0e8dd", "#e9e0d5">>

\* line 29
accent_colors == <<"#d5c3b8", "#c0b0a6", "#e0d0c4", "#b8c6d8", "#d9bcd0">>

\* line 55: the canvas make_image passes, filled with its base colour
NewCanvas(w, h) == [px \in 0..(w - 1) |-> [py \in 0..(h - 1) |-> "#f6eee2"]]

\* lines 23, 24, 26: the step of the ranges and the size of a rectangle
cell == 40

\* line 30: range(180)
dot_count == 180

\* ImageDraw.rectangle((x0, y0, x1, y1), fill): the pixels of the canvas from
\* (x0, y0) to (x1, y1), both corners included, take the fill colour
Rectangle(cv, x0, y0, x1, y1, fill) ==
    [px \in DOMAIN cv |->
        [py \in DOMAIN cv[px] |->
            IF x0 <= px /\ px <= x1 /\ y0 <= py /\ py <= y1 THEN fill ELSE cv[px][py]]]

\* a shade chosen by the column alone
Shade_ColumnOnly(tx, ty) == colors[(tx % Len(colors)) + 1]

\* line 25: colors[(x + y) % len(colors)]
Shade(tx, ty) == colors[((tx + ty) % Len(colors)) + 1]

\* random.randint(a, b): any integer from a to b, both included
randint(a, b) == a..b

\* most cells of the widths and heights tried for the tiling
MaxCells == 2

\* widths and heights around the multiples of the cell size
TileSizes(n) == {s \in {cell * k + d : k \in 0..n, d \in {-1, 0, 1}} : s >= 1}

\* largest width and height tried for the dots
MaxDotSize == 2

BgStart(w, h) ==
    /\ PromptIdle
    /\ AppIdle
    /\ WrapIdle
    /\ ImgIdle
    /\ width = w
    /\ height = h
    /\ canvas = NewCanvas(w, h)
    /\ x = 0
    /\ y = 0
    /\ bpc = "tiles"
    /\ ndots = 0
    /\ dot = [none |-> TRUE]

InitTiles == \E w \in TileSizes(MaxCells), h \in TileSizes(MaxCells) : BgStart(w, h)

InitDots == \E w \in 1..MaxDotSize, h \in 1..MaxDotSize : BgStart(w, h)

\* lines 23-26: one turn of the inner loop, and the step to the next y, the
\* next x, or past the loops (width and height are at least 1)
DrawTile ==
    /\ bpc = "tiles"
    /\ canvas' = Rectangle(canvas, x, y, x + cell, y + cell, Shade(x, y))
    /\ IF y + cell < height
       THEN x' = x /\ y' = y + cell /\ bpc' = "tiles"
       ELSE IF x + cell < width
       THEN x' = x + cell /\ y' = 0 /\ bpc' = "tiles"
       ELSE x' = x /\ y' = y /\ bpc' = "dots"
    /\ UNCHANGED <<width, height, ndots, dot, promptVars, appVars, wrapVars, imgVars>>

\* lines 30-35: one turn of the loop over range(180).  The ellipse is recorded
\* by its arguments; its pixels are not painted on canvas, which keeps the
\* tiling.
DrawDot ==
    /\ bpc = "dots" /\ ndots < dot_count
    /\ \E radius \in randint(2, 5), cx \in randint(0, width), cy \in randint(0, height),
          c \in randint(0, Len(accent_colors) - 1) :
          dot' = [radius |-> radius, cx |-> cx, cy |-> cy, color |-> accent_colors[c + 1],
                  box |-> <<cx - radius, cy - radius, cx + radius, cy + radius>>]
    /\ ndots' = ndots + 1
    /\ UNCHANGED <<width, height, canvas, x, y, bpc, promptVars, appVars, wrapVars, imgVars>>

\* the end of the loop of line 30, and of the function
BgReturn ==
    /\ bpc = "dots" /\ ndots = dot_count
    /\ bpc' = "returned"
    /\ UNCHANGED <<width, height, canvas, x, y, ndots, dot, promptVars, appVars, wrapVars, imgVars>>

\* the tiling loop, up to the first dot
NextTiles == DrawTile

SpecTiles == InitTiles /\ [][NextTiles]_vars

\* the whole function
NextDots == DrawTile \/ DrawDot \/ BgReturn

SpecDots == InitDots /\ [][NextDots]_vars

----------------------------------------------------------------------------
(* Claims about _draw_background *)

\* C9: after the tiling loop and before any dot, every pixel (px, py) of the
\* canvas has the palette colour of index ((px div 40) + (py div 40)) mod 3.
C9_TilingByCell ==
    (bpc = "dots" /\ ndots = 0) =>
        /\ DOMAIN canvas = 0..(width - 1)
        /\ \A px \in 0..(width - 1) :
              /\ DOMAIN canvas[px] = 0..(height - 1)
              /\ \A py \in 0..(height - 1) :
                    canvas[px][py] = colors[(((px \div 40) + (py \div 40)) % 3) + 1]

C9_Witness ==
    /\ bpc = "dots" /\ ndots = 0
    /\ width = 81 /\ height = 41
    /\ canvas[40][40] = colors[3]
    /\ canvas[80][39] = colors[3]
    /\ canvas[39][40] = colors[2]

\* C10 as stated: 180 dots are drawn, and every dot has a radius in 2..5, one of
\* the 5 accent colours and a centre that is a pixel of the canvas:
\* 0 <= cx < width and 0 <= cy < height.
C10_DotsWithinCanvas ==
    /\ ndots <= 180
    /\ bpc = "returned" => ndots = 180
    /\ ndots > 0 =>
          /\ dot.radius \in 2..5
          /\ dot.color \in {accent_colors[i] : i \in 1..5}
          /\ 0 <= dot.cx /\ dot.cx < width
          /\ 0 <= dot.cy /\ dot.cy < height

----------------------------------------------------------------------------
(* imagegen.py: make_image, called by two sessions of the app.  Each
   statement of make_image is one step; the steps of the two callers
   interleave freely with each other and with the wall clock. *)

\* the clock counts fractions of a second: this many to the second
TicksPerSecond == 2

\* the clock stops here
MaxClock == 3

\* calls of make_image made in all
MaxCallsMade == 3

\* the blocks in which one image file is written
FileBlocks == 2

\* the output directories passed
OutputDirs == {"generated", "out"}

\* line 52: datetime.now().strftime("%Y%m%d_%H%M%S"): the clock cut to the second
Strftime(now) == now \div TicksPerSecond

\* line 53: Path(output_dir) / f"matryoshka_prompt_{timestamp}.png"
OutputPath(output_dir, ts) == <<output_dir, "matryoshka_prompt_", ts, ".png">>

InitImage ==
    /\ PromptIdle
    /\ AppIdle
    /\ WrapIdle
    /\ BgIdle
    /\ ImgIdle

\* the wall clock advances
Tick ==
    /\ clock < MaxClock
    /\ clock' = clock + 1
    /\ UNCHANGED <<dirs, files, ipc, call, timestamp, output_path, image, fp, ncall,
                   returned, saves, promptVars, appVars, wrapVars, bgVars>>

\* line 45: a session calls make_image(prompt, output_dir=d)
CallMakeImage(c) ==
    /\ ipc[c] = "idle" /\ ncall < MaxCallsMade
    /\ \E d \in OutputDirs :
          call' = [call EXCEPT ![c] = [id |-> ncall + 1, output_dir |-> d]]
    /\ ncall' = ncall + 1
    /\ ipc' = [ipc EXCEPT ![c] = "mkdir"]
    /\ UNCHANGED <<clock, dirs, files, timestamp, output_path, image, fp, returned, saves,
                   promptVars, appVars, wrapVars, bgVars>>

\* line 51: Path(output_dir).mkdir(parents=True, exist_ok=True)
Mkdir(c) ==
    /\ ipc[c] = "mkdir"
    /\ dirs' = dirs \cup {call[c].output_dir}
    /\ ipc' = [ipc EXCEPT ![c] = "stamp"]
    /\ UNCHANGED <<clock, files, call, timestamp, output_path, image, fp, ncall, returned,
                   saves, promptVars, appVars, wrapVars, bgVars>>

\* lines 52-53: the timestamp and the output path
Stamp(c) ==
    /\ ipc[c] = "stamp"
    /\ timestamp' = [timestamp EXCEPT ![c] = Strftime(clock)]
    /\ output_path' = [output_path EXCEPT
                          ![c] = OutputPath(call[c].output_dir, Strftime(clock))]
    /\ ipc' = [ipc EXCEPT ![c] = "render"]
    /\ UNCHANGED <<clock, dirs, files, call, image, fp, ncall, returned, saves,
                   promptVars, appVars, wrapVars, bgVars>>

\* the PNG data of the canvas of call id, in the blocks in which it is written
PngOf(id) == [k \in 1..FileBlocks |-> <<"image of call", id, "block", k>>]

\* lines 55-77: the canvas is drawn; no two calls draw the same (the dots are
\* random), so the image is named after its call
Render(c) ==
    /\ ipc[c] = "render"
    /\ image' = [image EXCEPT ![c] = PngOf(call[c].id)]
    /\ ipc' = [ipc EXCEPT ![c] = "save"]
    /\ UNCHANGED <<clock, dirs, files, call, timestamp, output_path, fp, ncall, returned,
                   saves, promptVars, appVars, wrapVars, bgVars>>

\* the content data after block is written at position pos (counted from 0):
\* the blocks before and after it stay, a gap before it reads as zeros
WriteAt(data, pos, block) ==
    [k \in 1..(IF pos + 1 > Len(data) THEN pos + 1 ELSE Len(data)) |->
        IF k = pos + 1 THEN block
        ELSE IF k <= Len(data) THEN data[k]
        ELSE "zeros"]

\* line 78: canvas.save(output_path) opens the file for writing, which
\* creates it or empties the one that exists
SaveOpen(c) ==
    /\ ipc[c] = "save"
    /\ files' = [f \in DOMAIN files \cup {output_path[c]} |->
                    IF f = output_path[c] THEN <<>> ELSE files[f]]
    /\ fp' = [fp EXCEPT ![c] = 0]
    /\ saves' = Append(saves, <<"open", call[c].id>>)
    /\ ipc' = [ipc EXCEPT ![c] = "write"]
    /\ UNCHANGED <<clock, dirs, call, timestamp, output_path, image, ncall, returned,
                   promptVars, appVars, wrapVars, bgVars>>

\* line 78: canvas.save writes the next block of the image at its own position
\* in the file
SaveWrite(c) ==
    /\ ipc[c] = "write" /\ fp[c] < Len(image[c])
    /\ files' = [files EXCEPT
                    ![output_path[c]] = WriteAt(@, fp[c], image[c][fp[c] + 1])]
    /\ fp' = [fp EXCEPT ![c] = @ + 1]
    /\ UNCHANGED <<clock, dirs, ipc, call, timestamp, output_path, image, ncall, returned,
                   saves, promptVars, appVars, wrapVars, bgVars>>

\* line 78: canvas.save closes the file after the last block
SaveClose(c) ==
    /\ ipc[c] = "write" /\ fp[c] = Len(image[c])
    /\ saves' = Append(saves, <<"close", call[c].id>>)
    /\ ipc' = [ipc EXCEPT ![c] = "return"]
    /\ UNCHANGED <<clock, dirs, files, call, timestamp, output_path, image, fp, ncall,
                   returned, promptVars, appVars, wrapVars, bgVars>>

\* line 80: return str(output_path)
Return(c) ==
    /\ ipc[c] = "return"
    /\ returned' = returned \cup
          {[id |-> call[c].id, output_dir |-> call[c].output_dir, second |-> timestamp[c],
            path |-> output_path[c], image |-> image[c], raised |-> FALSE]}
    /\ ipc' = [ipc EXCEPT ![c] = "idle"]
    /\ UNCHANGED <<clock, dirs, files, call, timestamp, output_path, image, fp, ncall,
                   saves, promptVars, appVars, wrapVars, bgVars>>

NextImage ==
    \/ Tick
    \/ \E c \in Callers : CallMakeImage(c)
    \/ \E c \in Callers : Mkdir(c)
    \/ \E c \in Callers : Stamp(c)
    \/ \E c \in Callers : Render(c)
    \/ \E c \in Callers : SaveOpen(c)
    \/ \E c \in Callers : SaveWrite(c)
    \/ \E c \in Callers : SaveClose(c)
    \/ \E c \in Callers : Return(c)

SpecImage == InitImage /\ [][NextImage]_vars

----------------------------------------------------------------------------
(* Claims about make_image *)

\* the place in saves of the event ev of call id
EventAt(ev, id) == CHOOSE i \in 1..Len(saves) : saves[i] = <<ev, id>>

\* the returned call of the set rs whose save finished last
LastSaved(rs) == CHOOSE r \in rs : \A o \in rs : EventAt("close", o.id) <= EventAt("close", r.id)

\* no call is between opening the file p and returning
NoSaveInFlight(p) ==
    \A c \in Callers : ~(ipc[c] \in {"write", "return"} /\ output_path[c] = p)

\* the returned calls that wrote path p
SavedTo(p) == {r \in returned : r.path = p}

\* the calls whose save to p ran last: those that no other save to p began after
RanLast(p) ==
    {r \in SavedTo(p) :
        \A o \in SavedTo(p) : EventAt("open", o.id) <= EventAt("close", r.id)}

\* C6: the path is a function of output_dir and the second alone.  Two returned
\* calls with the same output_dir and timestamps of the same second have the
\* same path {output_dir}/matryoshka_prompt_{timestamp}.png, no error was
\* reported to either, and once everything written to the path is complete the
\* file holds only the image of a call whose save ran last; two calls with
\* timestamps of different seconds have distinct paths.
C6_SameSecondSamePath ==
    \A a, b \in returned :
        a.id # b.id =>
            /\ (a.output_dir = b.output_dir /\ a.second = b.second) =>
                  /\ a.path = b.path
                  /\ a.path = <<a.output_dir, "matryoshka_prompt_", a.second, ".png">>
                  /\ ~a.raised /\ ~b.raised
                  /\ a.path \in DOMAIN files
                  /\ NoSaveInFlight(a.path) =>
                        files[a.path] \in {r.image : r \in RanLast(a.path)}
            /\ a.second # b.second => a.path # b.path

\* the saves of the calls a and b did not overlap: one closed the file before
\* the other opened it
Apart(a, b) ==
    \/ EventAt("close", a.id) < EventAt("open", b.id)
    \/ EventAt("close", b.id) < EventAt("open", a.id)

\* The part of C6 about the path: same output_dir and same second give the
\* same path, a different second or a different output_dir gives another.
C6_PathFunction ==
    \A a, b \in returned :
        a.id # b.id =>
            (a.path = b.path <=> (a.output_dir = b.output_dir /\ a.second = b.second))

\* The part of C6 about the file when the saves to a path did not overlap: the
\* file holds the image of the call that saved last.
C6_SavesApart ==
    \A p \in DOMAIN files :
        (/\ NoSaveInFlight(p)
         /\ SavedTo(p) # {}
         /\ \A a, b \in SavedTo(p) : a.id # b.id => Apart(a, b))
            => files[p] = LastSaved(SavedTo(p)).image

=============================================================================
